---- MODULE Spec2Model ----
(***************************************************************************)
(* bash-match (src/index.js): match a string against a glob pattern by     *)
(* handing the test to a bash subprocess.                                  *)
(*                                                                         *)
(* JavaScript values are modelled as follows.                              *)
(*   string   [type |-> "string", chars |-> <<"a", "*">>]                  *)
(*   number   [type |-> "number", chars |-> <<"1","2","3">>]               *)
(*   object   [type |-> "object", entries |-> << <<key, value>>, ... >>]   *)
(*            entries are kept in the object's own-key order, which is     *)
(*            what `for (key in options)` enumerates                       *)
(*   undefined, as the options argument: [type |-> "undefined", ...]       *)
(*   property values: "true", "false" (the booleans), "1" (a truthy value  *)
(*            that is not === true), any other string, and "undefined"     *)
(*            for a property that is absent                                *)
(*   Buffer   [null |-> FALSE, chars |-> <<...>>], null [null |-> TRUE,..] *)
(*   characters: one-character strings; a character that has no escape in  *)
(*            a TLA+ string is written by its code point, as in "U+2028"   *)
(***************************************************************************)
EXTENDS Integers, Sequences, FiniteSets

VARIABLES
    windows,    \* what isWindows() answers in this process
    fs,         \* the paths for which exists(path) currently answers true
    bashPath,   \* src/index.js:8, the cached shell path ("" while undefined)
    probes,     \* every path handed to exists() so far, in order
    str,        \* first argument of the last call of bash()
    pattern,    \* second argument of the last call of bash()
    options,    \* third argument of the last call of bash()
    opts,       \* what createOptions returned in the last call
    args,       \* what cmd returned in the last call
    exe,        \* the executable handed to spawn.sync in the last call
    res,        \* what spawn.sync did in the last call
    result,     \* how the last call of bash() ended
    trace,      \* the helpers the last call of bash() went through, in order
    given,      \* bash.match: the first argument as the caller passed it
    list,       \* bash.match: the list being filtered
    idx,        \* bash.match: the loop index
    matches,    \* bash.match: the elements pushed so far
    verdicts,   \* bash.match: what bash.isMatch answered for each element so far
    pc          \* position of the running operation

vars == <<windows, fs, bashPath, probes, str, pattern, options, opts, args, exe,
          res, result, trace, given, list, idx, matches, verdicts, pc>>

envVars   == <<windows, fs, bashPath, probes>>
callVars  == <<str, pattern, options, opts, args, exe, res, result, trace>>
batchVars == <<given, list, idx, matches, verdicts>>

----------------------------------------------------------------------------
(* Bounds of the model *)

MaxKeys == 2        \* own keys of a caller-supplied options object
MaxPatLen == 5      \* characters of an enumerated pattern
MaxStreamLen == 2   \* characters of a captured output stream
MaxList == 3        \* elements of a list handed to bash.match

----------------------------------------------------------------------------
(* JavaScript values *)

String(cs) == [type |-> "string", chars |-> cs]
Number123 == [type |-> "number", chars |-> <<"1", "2", "3">>]
Object(es) == [type |-> "object", entries |-> es]
Undefined == [type |-> "undefined", entries |-> <<>>]
Array(xs) == [type |-> "array", items |-> xs]

Buffer(cs) == [null |-> FALSE, chars |-> cs]
Null == [null |-> TRUE, chars |-> <<>>]

Keys(o) == {o.entries[i][1] : i \in 1..Len(o.entries)}

\* o.hasOwnProperty(k)
hasOwnProperty(o, k) == k \in Keys(o)

\* o[k]
Get(o, k) ==
    IF hasOwnProperty(o, k)
    THEN LET i == CHOOSE j \in 1..Len(o.entries) : o.entries[j][1] = k
         IN  o.entries[i][2]
    ELSE "undefined"

\* o[k] = v: an existing key keeps its place, a new key goes last
Set(o, k, v) ==
    IF hasOwnProperty(o, k)
    THEN Object([i \in 1..Len(o.entries) |->
                    IF o.entries[i][1] = k THEN <<k, v>> ELSE o.entries[i]])
    ELSE Object(Append(o.entries, <<k, v>>))

RECURSIVE assign(_, _)
assign(o, es) ==
    IF es = <<>> THEN o
    ELSE assign(Set(o, Head(es)[1], Head(es)[2]), Tail(es))

\* extend-shallow: copy the own keys of obj onto o when obj is an object
extend(o, obj) == IF obj.type = "object" THEN assign(o, obj.entries) ELSE o

\* process.cwd()
ProcessCwd == "/cwd"

\* str.indexOf(sub) !== -1
Contains(cs, sub) ==
    \E i \in 1..Len(cs) :
        /\ i + Len(sub) - 1 <= Len(cs)
        /\ SubSeq(cs, i, i + Len(sub) - 1) = sub

----------------------------------------------------------------------------
(* Option Normalizer *)

ExtglobChars == {"@", "?", "!", "+", "*"}

\* the characters a `.` of a regular expression does not match
LineTerminators == {"\n", "\r", "U+2028", "U+2029"}

\* is-extglob: scan for /(\\).|([@?!+*]\(.*\))/ from the left; an escape pair
\* (a backslash and a character that is no line terminator) is skipped, an
\* extglob opener with a closing parenthesis further on, no line terminator
\* in between, answers true
RECURSIVE ExtglobScan(_)
ExtglobScan(cs) ==
    IF cs = <<>> THEN FALSE
    ELSE IF Head(cs) = "\\" /\ Len(cs) >= 2 /\ cs[2] \notin LineTerminators
         THEN ExtglobScan(SubSeq(cs, 3, Len(cs)))
    ELSE IF /\ Head(cs) \in ExtglobChars
            /\ Len(cs) >= 3
            /\ cs[2] = "("
            /\ \E j \in 3..Len(cs) :
                  /\ cs[j] = ")"
                  /\ \A k \in 3..(j - 1) : cs[k] \notin LineTerminators
         THEN TRUE
    ELSE ExtglobScan(Tail(cs))

isExtglob(s) == s.type = "string" /\ s.chars # <<>> /\ ExtglobScan(s.chars)

\* createOptions without the final `opts.normalized = true`
createOptionsUnmarked(p, o) ==
    IF o.type = "object" /\ Get(o, "normalized") = "true" THEN o
    ELSE
      LET o0 == extend(Object(<< <<"cwd", ProcessCwd>> >>), o)
          o1 == IF Get(o0, "nocase") = "true" THEN Set(o0, "nocaseglob", "true") ELSE o0
          o2 == IF Get(o1, "nonull") = "true" THEN Set(o1, "nullglob", "true") ELSE o1
          o3 == IF Get(o2, "dot") = "true" THEN Set(o2, "dotglob", "true") ELSE o2
          o4 == IF ~hasOwnProperty(o3, "globstar") /\ Contains(p.chars, <<"*", "*">>)
                THEN Set(o3, "globstar", "true") ELSE o3
          o5 == IF ~hasOwnProperty(o4, "extglob") /\ isExtglob(p)
                THEN Set(o4, "extglob", "true") ELSE o4
      IN  o5

\* createOptions with the extglob inference guarded by the globstar key
createOptionsWrongGuard(p, o) ==
    IF o.type = "object" /\ Get(o, "normalized") = "true" THEN o
    ELSE
      LET o0 == extend(Object(<< <<"cwd", ProcessCwd>> >>), o)
          o1 == IF Get(o0, "nocase") = "true" THEN Set(o0, "nocaseglob", "true") ELSE o0
          o2 == IF Get(o1, "nonull") = "true" THEN Set(o1, "nullglob", "true") ELSE o1
          o3 == IF Get(o2, "dot") = "true" THEN Set(o2, "dotglob", "true") ELSE o2
          o4 == IF ~hasOwnProperty(o3, "globstar") /\ Contains(p.chars, <<"*", "*">>)
                THEN Set(o3, "globstar", "true") ELSE o3
          o5 == IF ~hasOwnProperty(o3, "globstar") /\ isExtglob(p)
                THEN Set(o4, "extglob", "true") ELSE o4
      IN  Set(o5, "normalized", "true")

\* createOptions without the early return for a record marked normalized
createOptionsNoEarlyReturn(p, o) ==
      LET o0 == extend(Object(<< <<"cwd", ProcessCwd>> >>), o)
          o1 == IF Get(o0, "nocase") = "true" THEN Set(o0, "nocaseglob", "true") ELSE o0
          o2 == IF Get(o1, "nonull") = "true" THEN Set(o1, "nullglob", "true") ELSE o1
          o3 == IF Get(o2, "dot") = "true" THEN Set(o2, "dotglob", "true") ELSE o2
          o4 == IF ~hasOwnProperty(o3, "globstar") /\ Contains(p.chars, <<"*", "*">>)
                THEN Set(o3, "globstar", "true") ELSE o3
          o5 == IF ~hasOwnProperty(o4, "extglob") /\ isExtglob(p)
                THEN Set(o4, "extglob", "true") ELSE o4
      IN  Set(o5, "normalized", "true")

\* createOptions with `if (opts.nocase)` in place of `if (opts.nocase === true)`
createOptionsTruthyAlias(p, o) ==
    IF o.type = "object" /\ Get(o, "normalized") = "true" THEN o
    ELSE
      LET o0 == extend(Object(<< <<"cwd", ProcessCwd>> >>), o)
          o1 == IF Get(o0, "nocase") \notin {"false", "undefined"}
                THEN Set(o0, "nocaseglob", "true") ELSE o0
          o2 == IF Get(o1, "nonull") \notin {"false", "undefined"}
                THEN Set(o1, "nullglob", "true") ELSE o1
          o3 == IF Get(o2, "dot") \notin {"false", "undefined"}
                THEN Set(o2, "dotglob", "true") ELSE o2
          o4 == IF ~hasOwnProperty(o3, "globstar") /\ Contains(p.chars, <<"*", "*">>)
                THEN Set(o3, "globstar", "true") ELSE o3
          o5 == IF ~hasOwnProperty(o4, "extglob") /\ isExtglob(p)
                THEN Set(o4, "extglob", "true") ELSE o4
      IN  Set(o5, "normalized", "true")

createOptions(p, o) ==
    IF o.type = "object" /\ Get(o, "normalized") = "true" THEN o
    ELSE
      LET o0 == extend(Object(<< <<"cwd", ProcessCwd>> >>), o)
          o1 == IF Get(o0, "nocase") = "true" THEN Set(o0, "nocaseglob", "true") ELSE o0
          o2 == IF Get(o1, "nonull") = "true" THEN Set(o1, "nullglob", "true") ELSE o1
          o3 == IF Get(o2, "dot") = "true" THEN Set(o2, "dotglob", "true") ELSE o2
          o4 == IF ~hasOwnProperty(o3, "globstar") /\ Contains(p.chars, <<"*", "*">>)
                THEN Set(o3, "globstar", "true") ELSE o3
          o5 == IF ~hasOwnProperty(o4, "extglob") /\ isExtglob(p)
                THEN Set(o4, "extglob", "true") ELSE o4
      IN  Set(o5, "normalized", "true")

----------------------------------------------------------------------------
(* Command Compiler *)

valid == <<"dotglob", "extglob", "failglob", "globstar", "nocaseglob", "nullglob">>

indexOf(seq, x) ==
    IF \E i \in 1..Len(seq) : seq[i] = x
    THEN (CHOOSE i \in 1..Len(seq) : seq[i] = x /\ \A j \in 1..(i - 1) : seq[j] # x) - 1
    ELSE -1

\* the for-in loop of cmd: one ('-O', key) pair per own key that is in `valid`
RECURSIVE pushToggles(_)
pushToggles(es) ==
    IF es = <<>> THEN <<>>
    ELSE (IF indexOf(valid, Head(es)[1]) # -1
          THEN << <<"-O">>, <<Head(es)[1]>> >>
          ELSE <<>>) \o pushToggles(Tail(es))

\* the script text: its fixed pieces with str and pattern spliced in unchanged
script(s, p) ==
    <<"IFS=$\"\n\"; if [[ \"">> \o s.chars \o <<"\" = ">> \o p.chars
        \o <<" ]]; then echo true; fi">>

\* every argument is the sequence of the text pieces it is concatenated from
cmd(s, p, o) == pushToggles(o.entries) \o << <<"-c">>, script(s, p) >>

----------------------------------------------------------------------------
(* Result Interpreter *)

\* what String.prototype.trim strips: the WhiteSpace and LineTerminator
\* characters of ECMAScript (tab, vertical tab, form feed, space, no-break
\* space, byte order mark, the Unicode space separators, and the line ends)
Whitespace ==
    {"\t", "U+000B", "\f", " ", "U+00A0", "U+FEFF",
     "U+1680", "U+2000", "U+2001", "U+2002", "U+2003", "U+2004", "U+2005",
     "U+2006", "U+2007", "U+2008", "U+2009", "U+200A", "U+202F", "U+205F",
     "U+3000"}
    \cup {"\n", "\r", "U+2028", "U+2029"}

RECURSIVE trimStart(_)
trimStart(cs) ==
    IF cs # <<>> /\ Head(cs) \in Whitespace THEN trimStart(Tail(cs)) ELSE cs

RECURSIVE trimEnd(_)
trimEnd(cs) ==
    IF cs # <<>> /\ cs[Len(cs)] \in Whitespace
    THEN trimEnd(SubSeq(cs, 1, Len(cs) - 1)) ELSE cs

trim(cs) == trimEnd(trimStart(cs))

\* (buf && buf.toString() || '').trim()
toString(buf) == IF buf.null THEN <<>> ELSE trim(buf.chars)

Return(b) == [kind |-> "return", value |-> b, error |-> <<>>]
Throw(e)  == [kind |-> "throw", value |-> FALSE, error |-> e]
NoResult  == [kind |-> "none", value |-> FALSE, error |-> <<>>]

\* handleError with `options.strictErrors` in place of `=== true`
handleErrorTruthy(err, o) ==
    IF o.type = "object" /\ Get(o, "strictErrors") \notin {"false", "undefined"}
    THEN Throw(err)
    ELSE Return(FALSE)

handleError(err, o) ==
    IF o.type = "object" /\ Get(o, "strictErrors") = "true"
    THEN Throw(err)
    ELSE Return(FALSE)

----------------------------------------------------------------------------
(* Shell executable path *)

UsrLocalBinBash == "/usr/local/bin/bash"
BinBash == "/bin/bash"
Paths == {UsrLocalBinBash, BinBash}

\* getBashPath without `if (bashPath) return bashPath`
getBashPathUncached(cache, files) ==
    IF UsrLocalBinBash \in files
    THEN [path |-> UsrLocalBinBash, probed |-> <<UsrLocalBinBash>>]
    ELSE IF BinBash \in files
         THEN [path |-> BinBash, probed |-> <<UsrLocalBinBash, BinBash>>]
    ELSE [path |-> "bash", probed |-> <<UsrLocalBinBash, BinBash>>]

\* getBashPath with the cache in `cache` and the filesystem in `files`:
\* the path it returns (and leaves in the cache) and the exists() calls it makes
getBashPath(cache, files) ==
    IF cache # "" THEN [path |-> cache, probed |-> <<>>]
    ELSE IF UsrLocalBinBash \in files
         THEN [path |-> UsrLocalBinBash, probed |-> <<UsrLocalBinBash>>]
    ELSE IF BinBash \in files
         THEN [path |-> BinBash, probed |-> <<UsrLocalBinBash, BinBash>>]
    ELSE [path |-> "bash", probed |-> <<UsrLocalBinBash, BinBash>>]

----------------------------------------------------------------------------
(* Shell Executor: what spawn.sync can do with a command.                  *)
(*   completed  the shell ran; stdout and stderr are what it wrote (a      *)
(*              stream that was not captured is null)                      *)
(*   error      the process could not be launched (ENOENT, EACCES):        *)
(*              spawn.sync returns normally, with the failure in           *)
(*              res.error and with res.stdout and res.stderr null          *)
(*   throws     spawn.sync itself throws (arguments it rejects)            *)

NoSpawn == [kind |-> "none", stdout |-> Null, stderr |-> Null, error |-> <<>>]
Completed(out, err) ==
    [kind |-> "completed", stdout |-> out, stderr |-> err, error |-> <<>>]
SpawnError == [kind |-> "error", stdout |-> Null, stderr |-> Null, error |-> <<"ENOENT">>]
SpawnThrows ==
    [kind |-> "throws", stdout |-> Null, stderr |-> Null, error |-> <<"TypeError">>]

----------------------------------------------------------------------------
(* bash(str, pattern, options): the whole call, given what the process     *)
(* sees (w: isWindows(), cache: bashPath, files: the filesystem) and what   *)
(* spawn.sync does with the command (out)                                   *)

Raised(e, cache) ==
    [result |-> Throw(e), opts |-> Undefined, args |-> <<>>, exe |-> "",
     res |-> NoSpawn, trace |-> <<>>, bashPath |-> cache, probed |-> <<>>]

\* bash with the platform check moved inside the try block
bashPlatformInTry(s, p, o, w, cache, files, out) ==
    IF s.type # "string" THEN Raised(<<"TypeError: expected a string">>, cache)
    ELSE IF p.type # "string" THEN Raised(<<"TypeError: expected a string">>, cache)
    ELSE IF w
         THEN [Raised(<<>>, cache) EXCEPT
                 !.result = handleError(<<"Error: bash-match does not work on windows">>, o)]
    ELSE
      LET op == createOptions(p, o)
          bp == getBashPath(cache, files)
          a  == cmd(s, p, op)
          err == toString(out.stderr)
          r  == IF out.kind = "throws" THEN handleError(out.error, op)
                ELSE IF err # <<>> THEN handleError(err, op)
                ELSE Return(toString(out.stdout) # <<>>)
      IN  [result |-> r, opts |-> op, args |-> a, exe |-> bp.path, res |-> out,
           trace |-> <<"createOptions", "getBashPath", "cmd", "spawn.sync">>,
           bashPath |-> bp.path, probed |-> bp.probed]

bash(s, p, o, w, cache, files, out) ==
    IF s.type # "string" THEN Raised(<<"TypeError: expected a string">>, cache)
    ELSE IF p.type # "string" THEN Raised(<<"TypeError: expected a string">>, cache)
    ELSE IF w THEN Raised(<<"Error: bash-match does not work on windows">>, cache)
    ELSE
      LET op == createOptions(p, o)
          bp == getBashPath(cache, files)
          a  == cmd(s, p, op)
          err == toString(out.stderr)
          r  == IF out.kind = "throws" THEN handleError(out.error, op)
                ELSE IF err # <<>> THEN handleError(err, op)
                ELSE Return(toString(out.stdout) # <<>>)
      IN  [result |-> r, opts |-> op, args |-> a, exe |-> bp.path, res |-> out,
           trace |-> <<"createOptions", "getBashPath", "cmd", "spawn.sync">>,
           bashPath |-> bp.path, probed |-> bp.probed]

\* bash.isMatch
isMatch(s, p, o, w, cache, files, out) == bash(s, p, o, w, cache, files, out)

\* bash.match, line 95: Array.isArray(list) ? list : [list]
toList(l) == IF l.type = "array" THEN l.items ELSE <<l>>

\* matches.unshift(fixture) in place of matches.push(fixture)
unshift(ms, fixture) == <<fixture>> \o ms

\* bash.match, line 102: matches.push(fixture)
push(ms, fixture) == Append(ms, fixture)

----------------------------------------------------------------------------
(* Inputs *)

RECURSIVE SeqsUpTo(_, _)
SeqsUpTo(S, n) ==
    IF n = 0 THEN {<<>>}
    ELSE LET shorter == SeqsUpTo(S, n - 1)
         IN  shorter \cup {Append(q, x) : q \in shorter, x \in S}

ToggleKeys == {valid[i] : i \in 1..Len(valid)}
AliasKeys == {"dot", "nocase", "nonull"}
OptionKeys == ToggleKeys \cup AliasKeys \cup {"strictErrors", "cwd", "normalized", "stdio"}

ValuesOf(k) ==
    IF k \in ToggleKeys THEN {"true", "false"}
    ELSE IF k \in AliasKeys THEN {"true", "false", "1"}
    ELSE IF k = "normalized" THEN {"true", "1"}
    ELSE IF k = "strictErrors" THEN {"true"}
    ELSE IF k = "cwd" THEN {"/w"}
    ELSE {"pipe"}

Entries == {<<k, v>> : k \in OptionKeys, v \in UNION {ValuesOf(k) : k \in OptionKeys}}

\* option objects with at most MaxKeys own keys, in every key order
RawOptions ==
    {Undefined} \cup
    {Object(es) : es \in
        {q \in SeqsUpTo({e \in Entries : e[2] \in ValuesOf(e[1])}, MaxKeys) :
            \A i, j \in 1..Len(q) : i # j => q[i][1] # q[j][1]}}

SampleOptions ==
    {Undefined, Object(<<>>),
     Object(<< <<"globstar", "false">> >>), Object(<< <<"extglob", "false">> >>),
     Object(<< <<"globstar", "true">> >>),
     Object(<< <<"normalized", "true">> >>)}

PatChars == {"*", "@", "(", ")", "\\", "\n"}
Patterns == {String(cs) : cs \in SeqsUpTo(PatChars, MaxPatLen)}
SamplePatterns == {String(<<"a">>), String(<<"*", "*">>), String(<<"*", "(", "a", ")">>)}

Subjects == {String(<<"a">>), String(<<"b">>), Number123}
CallPatterns == {String(<<"*">>), Number123}
CallOptions ==
    {Undefined, Object(<<>>),
     Object(<< <<"strictErrors", "true">> >>), Object(<< <<"strictErrors", "false">> >>),
     Object(<< <<"strictErrors", "1">> >>),
     Object(<< <<"normalized", "true">>, <<"strictErrors", "true">> >>)}

StreamChars == {"\n", "\f", "t"}
Streams == {Null} \cup {Buffer(cs) : cs \in SeqsUpTo(StreamChars, MaxStreamLen)}
Outcomes ==
    {Completed(o, e) : o \in Streams, e \in Streams} \cup {SpawnError, SpawnThrows}

BatchLists ==
    {Array(xs) : xs \in SeqsUpTo(Subjects, MaxList)} \cup Subjects
BatchOptions == {Undefined, Object(<< <<"strictErrors", "true">> >>)}
BatchOutcomes ==
    {Completed(Buffer(<<"t", "\n">>), Buffer(<<>>)),
     Completed(Buffer(<<>>), Buffer(<<>>)),
     Completed(Buffer(<<>>), Buffer(<<"t", "\n">>))}

----------------------------------------------------------------------------
(* The process: calls of bash, bash.isMatch and bash.match, one at a time,  *)
(* and a filesystem that changes under it                                   *)

NoCall ==
    /\ str = String(<<>>)
    /\ pattern = String(<<>>)
    /\ options = Undefined
    /\ opts = Undefined
    /\ args = <<>>
    /\ exe = ""
    /\ res = NoSpawn
    /\ result = NoResult
    /\ trace = <<>>

NoBatch ==
    /\ given = Undefined
    /\ list = <<>>
    /\ idx = -1
    /\ matches = <<>>
    /\ verdicts = <<>>

Init ==
    /\ windows \in BOOLEAN
    /\ fs \in SUBSET Paths
    /\ bashPath = ""
    /\ probes = <<>>
    /\ NoCall
    /\ NoBatch
    /\ pc = "ready"

\* one call of bash with its effects on the process and on the record of the call
Call(r, s, p, o) ==
    /\ str' = s
    /\ pattern' = p
    /\ options' = o
    /\ opts' = r.opts
    /\ args' = r.args
    /\ exe' = r.exe
    /\ res' = r.res
    /\ result' = r.result
    /\ trace' = r.trace
    /\ bashPath' = r.bashPath
    /\ probes' = probes \o r.probed

Bash ==
    /\ pc = "ready"
    /\ \E s \in Subjects, p \in CallPatterns, o \in CallOptions, out \in Outcomes :
          \E r \in {bash(s, p, o, windows, bashPath, fs, out)} : Call(r, s, p, o)
    /\ pc' = "called"
    /\ UNCHANGED <<windows, fs, batchVars>>

IsMatch ==
    /\ pc = "ready"
    /\ \E s \in Subjects, p \in CallPatterns, o \in CallOptions, out \in Outcomes :
          \E r \in {isMatch(s, p, o, windows, bashPath, fs, out)} : Call(r, s, p, o)
    /\ pc' = "called"
    /\ UNCHANGED <<windows, fs, batchVars>>

\* bash.match, lines 95-98: up to the loop
MatchBegin ==
    /\ pc = "ready"
    /\ \E l \in BatchLists, p \in CallPatterns, o \in BatchOptions :
          /\ given' = l
          /\ list' = toList(l)
          /\ pattern' = p
          /\ options' = o
    /\ matches' = <<>>
    /\ idx' = -1
    /\ verdicts' = <<>>
    /\ pc' = "loop"
    /\ UNCHANGED <<envVars, str, opts, args, exe, res, result, trace>>

\* bash.match, lines 99-104: one turn of the loop. idx counts from 0 and has
\* just been incremented when list[idx] is read; sequences here count from 1
MatchStep ==
    /\ pc = "loop"
    /\ idx + 1 < Len(list)
    /\ idx' = idx + 1
    /\ \E out \in BatchOutcomes, fixture \in {list[idx + 2]} :
          \E r \in {isMatch(fixture, pattern, options, windows, bashPath, fs, out)} :
              /\ Call(r, fixture, pattern, options)
              /\ IF r.result.kind = "throw"
                 THEN /\ pc' = "threw"
                      /\ UNCHANGED <<matches, verdicts>>
                 ELSE /\ pc' = "loop"
                      /\ verdicts' = Append(verdicts, r.result.value)
                      /\ matches' = IF r.result.value
                                    THEN push(matches, fixture) ELSE matches
    /\ UNCHANGED <<windows, fs, given, list>>

\* bash.match, lines 99 and 105: the loop test fails and matches is returned
MatchReturn ==
    /\ pc = "loop"
    /\ ~(idx + 1 < Len(list))
    /\ idx' = idx + 1
    /\ pc' = "returned"
    /\ UNCHANGED <<envVars, callVars, given, list, matches, verdicts>>

\* the caller has taken what the operation returned or threw: its arguments,
\* locals and outcome are gone, the process (and its cached path) lives on
Resume ==
    /\ pc \in {"called", "returned", "threw"}
    /\ str' = String(<<>>) /\ pattern' = String(<<>>) /\ options' = Undefined
    /\ opts' = Undefined /\ args' = <<>> /\ exe' = "" /\ res' = NoSpawn
    /\ result' = NoResult /\ trace' = <<>>
    /\ given' = Undefined /\ list' = <<>> /\ idx' = -1 /\ matches' = <<>>
    /\ verdicts' = <<>>
    /\ pc' = "ready"
    /\ UNCHANGED envVars

\* the filesystem changes between or during calls
FsChange ==
    /\ pc \in {"ready", "called", "loop", "returned", "threw"}
    /\ \E f \in SUBSET Paths : f # fs /\ fs' = f
    /\ UNCHANGED <<windows, bashPath, probes, callVars, batchVars, pc>>

Next == Bash \/ IsMatch \/ MatchBegin \/ MatchStep \/ MatchReturn \/ Resume \/ FsChange

Spec == Init /\ [][Next]_vars

----------------------------------------------------------------------------
(* The Option Normalizer and the Command Compiler on their own: createOptions *)
(* on a pattern and an options record, then again on its own result, then cmd *)

InitNorm ==
    /\ windows = FALSE
    /\ fs = {}
    /\ bashPath = ""
    /\ probes = <<>>
    /\ str = String(<<"a">>)
    /\ \/ pattern \in SamplePatterns /\ options \in RawOptions
       \/ pattern \in Patterns /\ options \in SampleOptions
    /\ opts = Undefined
    /\ args = <<>>
    /\ exe = ""
    /\ res = NoSpawn
    /\ result = NoResult
    /\ trace = <<>>
    /\ NoBatch
    /\ pc = "input"

Normalize ==
    /\ pc = "input"
    /\ opts' = createOptions(pattern, options)
    /\ pc' = "normalized"
    /\ UNCHANGED <<envVars, str, pattern, options, args, exe, res, result, trace, batchVars>>

\* the caller hands the record it got back to the normalizer
Renormalize ==
    /\ pc = "normalized"
    /\ options' = opts
    /\ opts' = createOptions(pattern, opts)
    /\ pc' = "renormalized"
    /\ UNCHANGED <<envVars, str, pattern, args, exe, res, result, trace, batchVars>>

Compile ==
    /\ pc = "normalized"
    /\ args' = cmd(str, pattern, opts)
    /\ pc' = "compiled"
    /\ UNCHANGED <<envVars, str, pattern, options, opts, exe, res, result, trace, batchVars>>

NextNorm == Normalize \/ Renormalize \/ Compile

SpecNorm == InitNorm /\ [][NextNorm]_vars

----------------------------------------------------------------------------
(* Vocabulary of the properties *)

\* a property value counts as true in a JavaScript condition
Truthy(v) == v \notin {"false", "undefined", "0", ""}

\* the record carries key k with exactly the value v
Carries(o, k, v) ==
    o.type = "object" /\ \E i \in 1..Len(o.entries) : o.entries[i] = <<k, v>>

\* the caller asked for strict errors
Strict(o) == Carries(o, "strictErrors", "true")

\* the record is already marked normalized
Marked(o) == Carries(o, "normalized", "true")

\* a captured stream has nothing but whitespace in it
Blank(buf) == buf.null \/ \A i \in 1..Len(buf.chars) : buf.chars[i] \in Whitespace

\* a stream's text from its first to its last non-whitespace character
Core(cs) ==
    LET ink == {i \in 1..Len(cs) : cs[i] \notin Whitespace}
    IN  IF ink = {} THEN <<>>
        ELSE SubSeq(cs, CHOOSE i \in ink : \A j \in ink : i <= j,
                        CHOOSE i \in ink : \A j \in ink : j <= i)

\* the last call was made with a non-string argument or on Windows
Rejected ==
    /\ result.kind # "none"
    /\ (str.type # "string" \/ pattern.type # "string" \/ windows)

\* the last call passed the argument checks and the platform check
Accepted ==
    /\ result.kind # "none"
    /\ str.type = "string" /\ pattern.type = "string" /\ ~windows

----------------------------------------------------------------------------
\* C1: after a completed shell run the call ends in exactly one of three ways,
\* decided by the trimmed streams and strictErrors alone: non-blank stderr is an
\* evaluation error whatever stdout holds (the trimmed stderr is thrown when
\* strictErrors is true, false is returned otherwise); blank stderr and
\* non-blank stdout return true; both blank return false.
C1_Interpretation ==
    (result.kind # "none" /\ res.kind = "completed") =>
        IF ~Blank(res.stderr)
        THEN IF Strict(options)
             THEN result = Throw(Core(res.stderr.chars))
             ELSE result = Return(FALSE)
        ELSE result = Return(~Blank(res.stdout))

C1_Witness ==
    /\ res.kind = "completed"
    /\ ~Blank(res.stderr) /\ ~Blank(res.stdout)
    /\ Len(res.stderr.chars) > Len(Core(res.stderr.chars))
    /\ Strict(options)
    /\ result.kind = "throw"

\* C2: a shell that could not be launched is handled like an evaluation error:
\* the failure is raised when strictErrors is true, false is returned otherwise.
C2_SpawnFailurePolicy ==
    (result.kind # "none" /\ res.kind \in {"error", "throws"}) =>
        IF Strict(options) THEN result.kind = "throw" ELSE result = Return(FALSE)

\* C3: a call with a non-string subject or pattern, or on Windows, raises
\* whatever strictErrors says, before any normalization, path resolution or
\* shell invocation: no helper ran, nothing was spawned, the cached path and
\* the probes are as before, and a batch stops with the error.
C3_ProgrammerErrorsSurface ==
    [][Rejected' =>
         /\ result'.kind = "throw"
         /\ pc' \in {"called", "threw"}
         /\ trace' = <<>>
         /\ opts' = Undefined /\ args' = <<>>
         /\ exe' = "" /\ res' = NoSpawn
         /\ bashPath' = bashPath
         /\ probes' = probes]_vars

C3_Witness ==
    /\ Rejected
    /\ pattern.type = "string" /\ ~windows
    /\ ~Strict(options)
    /\ pc = "threw"
    /\ idx = 1
    /\ bashPath # ""
    /\ result.kind = "throw"

\* the argument list the specification describes: the truthy toggles in the
\* order of the table, then '-c' and the script
RECURSIVE TruthyToggles(_, _)
TruthyToggles(o, ks) ==
    IF ks = <<>> THEN <<>>
    ELSE (IF hasOwnProperty(o, Head(ks)) /\ Truthy(Get(o, Head(ks)))
          THEN << <<"-O">>, <<Head(ks)>> >>
          ELSE <<>>) \o TruthyToggles(o, Tail(ks))

\* C4: the compiled argument list is ('-O', key) for each of the six toggle
\* keys that is present and truthy, in the fixed order dotglob, extglob,
\* failglob, globstar, nocaseglob, nullglob, followed by '-c' and the script
\* with subject and pattern spliced in verbatim.
C4_CompiledArguments ==
    pc = "compiled" =>
        args = TruthyToggles(opts, <<"dotglob", "extglob", "failglob", "globstar",
                                     "nocaseglob", "nullglob">>)
               \o << <<"-c">>,
                     <<"IFS=$\"\n\"; if [[ \"">> \o str.chars \o <<"\" = ">>
                        \o pattern.chars \o <<" ]]; then echo true; fi">> >>

\* C5 as the specification states it: the returned record is marked
\* normalized, has no key besides the six toggles, cwd, strictErrors and the
\* marker, every toggle in it is true, and no alias key is left.
C5_CanonicalRecord ==
    pc = "normalized" =>
        /\ Get(opts, "normalized") = "true"
        /\ Keys(opts) \subseteq ToggleKeys \cup {"cwd", "strictErrors", "normalized"}
        /\ \A k \in ToggleKeys \cap Keys(opts) : Get(opts, k) = "true"

\* C5, amended: the returned record is marked normalized. For a raw record not
\* already marked, it is a shallow copy: every key of the raw record is kept
\* (alias keys, unrecognized keys and toggles set to false included), with its
\* value unless it is an alias target or the marker; the only keys added are
\* cwd, the marker and toggles, and a toggle that was added is true.
C5_ShallowCopyMarked ==
    pc = "normalized" =>
        /\ Get(opts, "normalized") = "true"
        /\ ~Marked(options) =>
            /\ Keys(options) \subseteq Keys(opts)
            /\ Keys(opts) \subseteq Keys(options) \cup ToggleKeys \cup {"cwd", "normalized"}
            /\ \A k \in (ToggleKeys \cap Keys(opts)) \ Keys(options) : Get(opts, k) = "true"
            /\ \A k \in Keys(options) \ {"nocaseglob", "nullglob", "dotglob", "normalized"} :
                    Get(opts, k) = Get(options, k)

C5_Witness ==
    /\ pc = "normalized"
    /\ Carries(options, "dot", "true")
    /\ Carries(options, "stdio", "pipe")
    /\ Carries(opts, "dot", "true")
    /\ Carries(opts, "stdio", "pipe")
    /\ Carries(opts, "dotglob", "true")
    /\ Carries(opts, "normalized", "true")

\* one of ? * + @ ! immediately followed by '('
ExtglobPrefix(cs) ==
    \E i \in 1..(Len(cs) - 1) : cs[i] \in {"?", "*", "+", "@", "!"} /\ cs[i + 1] = "("

\* the character at i is not escaped: an even number of backslashes precede it
Unescaped(cs, i) ==
    \E n \in 0..(i - 1) :
        /\ n % 2 = 0
        /\ \A j \in (i - n)..(i - 1) : cs[j] = "\\"
        /\ (i - n = 1 \/ cs[i - n - 1] # "\\")

\* an unescaped extglob opener with a closing parenthesis after it on the
\* same line
ClosedExtglob(cs) ==
    \E i \in 1..(Len(cs) - 2) :
        /\ cs[i] \in {"?", "*", "+", "@", "!"}
        /\ cs[i + 1] = "("
        /\ Unescaped(cs, i)
        /\ \E j \in (i + 2)..Len(cs) :
              /\ cs[j] = ")"
              /\ \A k \in (i + 2)..(j - 1) :
                    cs[k] \notin {"\n", "\r", "U+2028", "U+2029"}

\* C6 as the specification states it: in the record the normalizer returns,
\* globstar is true whenever the pattern contains '**' or globstar was asked
\* for, and extglob is true whenever the pattern contains an extglob prefix or
\* extglob was asked for, whatever the raw record holds.
C6_ImpliedToggles ==
    pc = "normalized" =>
        /\ (Contains(pattern.chars, <<"*", "*">>) \/ Carries(options, "globstar", "true"))
              => Get(opts, "globstar") = "true"
        /\ (ExtglobPrefix(pattern.chars) \/ Carries(options, "extglob", "true"))
              => Get(opts, "extglob") = "true"

\* C6, amended: for a raw record that is not already marked normalized, a
\* toggle the raw record does not contain is inferred (globstar is true
\* whenever the pattern contains '**'; extglob is true whenever the pattern
\* contains an unescaped one of ? * + @ ! immediately followed by '(' with a
\* ')' after it and no line terminator in between), and a toggle the raw
\* record sets, to true or to false, keeps its value. A record already marked normalized keeps both toggles as given.
C6_InferredWhenAbsent ==
    pc = "normalized" =>
        IF Marked(options)
        THEN \A k \in {"globstar", "extglob"} :
                /\ hasOwnProperty(opts, k) <=> hasOwnProperty(options, k)
                /\ Get(opts, k) = Get(options, k)
        ELSE /\ \A k \in {"globstar", "extglob"} :
                  hasOwnProperty(options, k) => Get(opts, k) = Get(options, k)
             /\ (~hasOwnProperty(options, "globstar") /\ Contains(pattern.chars, <<"*", "*">>))
                  => Get(opts, "globstar") = "true"
             /\ (~hasOwnProperty(options, "extglob") /\ ClosedExtglob(pattern.chars))
                  => Get(opts, "extglob") = "true"

C6_Witness ==
    /\ pc = "normalized"
    /\ Carries(options, "globstar", "false")
    /\ ~hasOwnProperty(options, "extglob")
    /\ pattern.chars = <<"\\", "*", "*", "(", ")">>
    /\ Carries(opts, "extglob", "true")
    /\ Carries(opts, "globstar", "false")

\* C7: normalizing the normalizer's own result returns it unchanged, and a
\* record that comes in marked normalized comes back with no key added,
\* removed or changed.
C7_Idempotent ==
    /\ pc = "renormalized" => opts = options
    /\ (pc = "normalized" /\ Marked(options)) => opts = options

C7_Witness ==
    /\ pc = "normalized"
    /\ Marked(options)
    /\ Carries(options, "nocase", "true")
    /\ ~hasOwnProperty(options, "nocaseglob")
    /\ opts = options

\* C8: for each alias and its target, in the record normalized from a raw
\* record not already marked: the target is true when the alias is exactly
\* true; otherwise the target is as the raw record has it (absent stays
\* absent, a value given is kept).
C8_AliasesOnlyAddTrue ==
    (pc = "normalized" /\ ~Marked(options)) =>
        \A at \in {<<"nocase", "nocaseglob">>, <<"nonull", "nullglob">>, <<"dot", "dotglob">>} :
            IF Carries(options, at[1], "true")
            THEN Carries(opts, at[2], "true")
            ELSE /\ hasOwnProperty(opts, at[2]) <=> hasOwnProperty(options, at[2])
                 /\ Get(opts, at[2]) = Get(options, at[2])

C8_Witness ==
    /\ pc = "normalized"
    /\ Carries(options, "nonull", "1")
    /\ Carries(options, "nullglob", "false")
    /\ Carries(opts, "nullglob", "false")

\* the elements of xs whose verdict is true, in order
RECURSIVE Kept(_, _)
Kept(xs, vs) ==
    IF xs = <<>> \/ vs = <<>> THEN <<>>
    ELSE (IF Head(vs) THEN <<Head(xs)>> ELSE <<>>) \o Kept(Tail(xs), Tail(vs))

\* C9: the batch call walks the list in input order, one element at a time,
\* with the same pattern and options, and returns exactly the elements for
\* which the single match answered true, in input order, duplicates kept; a
\* subject that is not an array is taken as a one-element list.
C9_BatchFilter ==
    LET input == IF given.type = "array" THEN given.items ELSE <<given>>
    IN  /\ pc \in {"loop", "returned", "threw"} => list = input
        /\ pc = "loop" =>
              /\ Len(verdicts) = idx + 1
              /\ matches = Kept(SubSeq(input, 1, idx + 1), verdicts)
              /\ idx >= 0 => str = input[idx + 1]
        /\ pc = "returned" =>
              /\ idx = Len(input)
              /\ Len(verdicts) = Len(input)
              /\ matches = Kept(input, verdicts)

C9_Witness ==
    /\ pc = "returned"
    /\ Len(list) = 3
    /\ list[1] = list[3] /\ list[1] # list[2]
    /\ verdicts = <<TRUE, FALSE, TRUE>>
    /\ matches = <<list[1], list[1]>>

\* the path getBashPath settles on for a filesystem, and the probes it takes
FirstShell(files) ==
    IF "/usr/local/bin/bash" \in files THEN "/usr/local/bin/bash"
    ELSE IF "/bin/bash" \in files THEN "/bin/bash" ELSE "bash"

ProbesFor(files) ==
    IF "/usr/local/bin/bash" \in files THEN <<"/usr/local/bin/bash">>
    ELSE <<"/usr/local/bin/bash", "/bin/bash">>

\* C10: the cached path stays unset until the first call that passes the
\* argument and platform checks; that call sets it to /usr/local/bin/bash if
\* it exists, else /bin/bash if it exists, else bash, probing in that order;
\* from then on it never changes, nothing is probed again, and every shell is
\* launched from the cached path.
C10_PathLifecycle ==
    [][/\ bashPath # "" => (bashPath' = bashPath /\ probes' = probes)
       /\ (bashPath = "" /\ bashPath' # "") =>
             /\ Accepted'
             /\ bashPath' = FirstShell(fs)
             /\ probes' = ProbesFor(fs)
       /\ Accepted' => (bashPath' # "" /\ exe' = bashPath')
       /\ bashPath' = "" => probes' = <<>>]_vars

C10_Witness ==
    /\ pc = "loop"
    /\ idx = 1
    /\ Accepted
    /\ bashPath = "/bin/bash"
    /\ exe = "/bin/bash"
    /\ fs = {"/usr/local/bin/bash"}
    /\ probes = <<"/usr/local/bin/bash", "/bin/bash">>

====
